---------------------------- MODULE Spec2Model ----------------------------
(***************************************************************************)
(* Model of src/scripts/install_cloudinit.py: the pipeline that turns a    *)
(* nuage-init disk image into a cloud-init disk image.                     *)
(*                                                                         *)
(* One behaviour is one run of main().  The configuration and the state of *)
(* the file system are chosen in Init; every call to a collaborator        *)
(* (download, decompress_file, Guest, cijoe.run_local, cijoe.run) is       *)
(* appended to `trace` together with its outcome, which is chosen          *)
(* nondeterministically.                                                   *)
(***************************************************************************)
EXTENDS Integers, Sequences, FiniteSets, TLC

VARIABLES
    conf,              \* what cijoe.getconf() answers during the run
    exists,            \* the paths p for which Path(p).exists()
    pc,                \* position of the run in the script
    trace,             \* the collaborator calls made so far, in order
    err,               \* local `err`
    nuage_image_path,  \* local `nuage_image_path`
    guest_name,        \* local `guest_name` (0 is None)
    system_args,       \* local `system_args`
    cmd_idx,           \* position of `for cmd in cmds`
    ret                \* what main() returned (meaningful when pc = "done")

vars == <<conf, exists, pc, trace, err, nuage_image_path, guest_name,
          system_args, cmd_idx, ret>>

-----------------------------------------------------------------------------
(* Bounds and inputs *)

\* Longest qemu.guests mapping considered.
MaxGuests == 3

\* Python's None, for a key that .get() does not find.
None == "None"

\* The system_label values that occur in configurations (compared exactly).
Labels == {"freebsd", "FreeBSD"}

\* The non-zero error codes a collaborator may report.
ErrCodes == {2}

EINVAL == 22

\* Keys a nuage entry may hold, and keys a cloud entry may hold ("format"
\* stands for any key other than path).
NuageKeys == {"path", "metadata_path", "userdata_path", "decompressed_path"}
CloudKeys == {"path", "format"}

\* Symbolic file names.
NuagePath == "nuage.path"
DecompressedPath == "nuage.decompressed_path"
MetadataPath == "nuage.metadata_path"
UserdataPath == "nuage.userdata_path"
CloudPath == "cloud.path"
GuestMetadata == "guest_path/meta-data"
GuestUserdata == "guest_path/user-data"
SeedImg == "guest_path/seed.img"
BootImg == "guest.boot_img"

\* All sequences over S of length at most n.
SeqsUpTo(S, n) == UNION {[1..k -> S] : k \in 0..n}

Call(op, arg, ok) == [op |-> op, arg |-> arg, ok |-> ok]

\* `if err:` on an integer
Truthy(e) == e # 0

-----------------------------------------------------------------------------
Init ==
    /\ conf \in [image : [nuage : SUBSET NuageKeys,
                          cloud : SUBSET CloudKeys,
                          system_label : Labels \cup {None}],
                 guests : SeqsUpTo(Labels \cup {None}, MaxGuests),
                 transport : BOOLEAN]
    /\ exists \in SUBSET {NuagePath, DecompressedPath}
    /\ pc = "config"
    /\ trace = <<>>
    /\ err = 0
    /\ nuage_image_path = None
    /\ guest_name = 0
    /\ system_args = <<>>
    /\ cmd_idx = 0
    /\ ret = 0

\* main(), lines 215-220: a truthy err of cloudimage_from_nuageimage() is
\* returned, anything else becomes 0.
Return(e) ==
    /\ pc' = "done"
    /\ ret' = IF Truthy(e) THEN e ELSE 0

\* An exception that nothing catches ends the run.
Raise ==
    /\ pc' = "raised"
    /\ ret' = ret

\* Lines 39-50: the nuage and cloud entries.  Path(None) raises TypeError.
ReadConfig ==
    /\ pc = "config"
    /\ IF conf.image.nuage = {}
       THEN Return(EINVAL) /\ UNCHANGED nuage_image_path
       ELSE IF ~ ({"path", "metadata_path", "userdata_path"} \subseteq conf.image.nuage)
       THEN Raise /\ UNCHANGED nuage_image_path
       ELSE IF conf.image.cloud = {}
       THEN Return(EINVAL) /\ nuage_image_path' = NuagePath
       ELSE /\ pc' = "download"
            /\ nuage_image_path' = NuagePath
            /\ ret' = ret
    /\ UNCHANGED <<conf, exists, trace, err, guest_name, system_args, cmd_idx>>

\* Mutant: the download is made whether or not the cache path exists.
NeedsDownload_Always == TRUE

\* Line 52: the cache path does not exist.
NeedsDownload == nuage_image_path \notin exists

\* Lines 52-58.
Download ==
    /\ pc = "download"
    /\ IF ~ NeedsDownload
       THEN /\ pc' = "decompress"
            /\ UNCHANGED <<exists, trace, err, ret>>
       ELSE \E e \in {0} \cup ErrCodes :
            /\ trace' = Append(trace, Call("download", <<"nuage.url", nuage_image_path>>, e = 0))
            /\ err' = e
            /\ IF Truthy(e)
               THEN Return(e) /\ UNCHANGED exists
               ELSE /\ pc' = "decompress"
                    /\ exists' = exists \cup {nuage_image_path}
                    /\ ret' = ret
    /\ UNCHANGED <<conf, nuage_image_path, guest_name, system_args, cmd_idx>>

\* Mutant: the decompressed path is written whether or not it exists.
NeedsDecompress_Always == "decompressed_path" \in conf.image.nuage

\* Line 60 and 62: a decompressed_path is configured and does not exist yet.
NeedsDecompress ==
    /\ "decompressed_path" \in conf.image.nuage
    /\ DecompressedPath \notin exists

\* Mutant: line 72 sits inside the `if not ... exists()` block.
Decompress_RedirectOnlyWhenDecompressed ==
    /\ pc = "decompress"
    /\ IF NeedsDecompress
       THEN \E e \in {0} \cup ErrCodes :
            /\ trace' = Append(trace, Call("decompress_file",
                                           <<nuage_image_path, DecompressedPath>>, e = 0))
            /\ err' = e
            /\ IF Truthy(e)
               THEN Return(e) /\ UNCHANGED <<exists, nuage_image_path>>
               ELSE /\ pc' = "select"
                    /\ exists' = exists \cup {DecompressedPath}
                    /\ nuage_image_path' = DecompressedPath
                    /\ ret' = ret
       ELSE /\ pc' = "select"
            /\ UNCHANGED <<exists, trace, err, ret, nuage_image_path>>
    /\ UNCHANGED <<conf, guest_name, system_args, cmd_idx>>

\* Lines 60-72.
Decompress ==
    /\ pc = "decompress"
    /\ IF NeedsDecompress
       THEN \E e \in {0} \cup ErrCodes :
            /\ trace' = Append(trace, Call("decompress_file",
                                           <<nuage_image_path, DecompressedPath>>, e = 0))
            /\ err' = e
            /\ IF Truthy(e)
               THEN Return(e) /\ UNCHANGED <<exists, nuage_image_path>>
               ELSE /\ pc' = "select"
                    /\ exists' = exists \cup {DecompressedPath}
                    /\ nuage_image_path' = DecompressedPath
                    /\ ret' = ret
       ELSE /\ pc' = "select"
            /\ nuage_image_path' = IF "decompressed_path" \in conf.image.nuage
                                   THEN DecompressedPath ELSE nuage_image_path
            /\ UNCHANGED <<exists, trace, err, ret>>
    /\ UNCHANGED <<conf, guest_name, system_args, cmd_idx>>

\* Mutant: an unlabeled guest is skipped instead of ending the selection.
RECURSIVE SelectFrom_SkipUnlabeled(_, _, _)
SelectFrom_SkipUnlabeled(guests, i, system_label) ==
    IF i > Len(guests)
    THEN [guest_name |-> 0, err |-> EINVAL]
    ELSE IF guests[i] # None /\ guests[i] = system_label
    THEN [guest_name |-> i, err |-> 0]
    ELSE SelectFrom_SkipUnlabeled(guests, i + 1, system_label)

\* Mutant: the loop has no `break`, so the last matching guest wins.
SelectFrom_NoBreak(guests, i, system_label) ==
    LET matches == {j \in i..Len(guests) : guests[j] = system_label}
    IN  IF matches = {} \/ \E j \in i..Len(guests) : guests[j] = None
        THEN [guest_name |-> 0, err |-> EINVAL]
        ELSE [guest_name |-> CHOOSE j \in matches : \A k \in matches : k <= j, err |-> 0]

\* Mutant: without a match, the name the loop variable was left on is used.
RECURSIVE SelectFrom_FallBackToLast(_, _, _)
SelectFrom_FallBackToLast(guests, i, system_label) ==
    IF i > Len(guests)
    THEN IF Len(guests) = 0
         THEN [guest_name |-> 0, err |-> EINVAL]
         ELSE [guest_name |-> Len(guests), err |-> 0]
    ELSE IF guests[i] = None
    THEN [guest_name |-> 0, err |-> EINVAL]
    ELSE IF guests[i] = system_label
    THEN [guest_name |-> i, err |-> 0]
    ELSE SelectFrom_FallBackToLast(guests, i + 1, system_label)

\* Mutant: the labels are compared before the guest's label is tested for
\* None.
RECURSIVE SelectFrom_CompareFirst(_, _, _)
SelectFrom_CompareFirst(guests, i, system_label) ==
    IF i > Len(guests)
    THEN [guest_name |-> 0, err |-> EINVAL]
    ELSE IF guests[i] = system_label
    THEN [guest_name |-> i, err |-> 0]
    ELSE IF guests[i] = None
    THEN [guest_name |-> 0, err |-> EINVAL]
    ELSE SelectFrom_CompareFirst(guests, i + 1, system_label)

\* Lines 79-92, the loop over qemu.guests from its i-th entry on: the name
\* (position) of the guest found, or EINVAL.
RECURSIVE SelectFrom(_, _, _)
SelectFrom(guests, i, system_label) ==
    IF i > Len(guests)
    THEN [guest_name |-> 0, err |-> EINVAL]
    ELSE IF guests[i] = None
    THEN [guest_name |-> 0, err |-> EINVAL]
    ELSE IF guests[i] = system_label
    THEN [guest_name |-> i, err |-> 0]
    ELSE SelectFrom(guests, i + 1, system_label)

\* Lines 74-92.  A missing system_label of the image is only logged.
SelectGuest ==
    /\ pc = "select"
    /\ LET r == SelectFrom(conf.guests, 1, conf.image.system_label)
       IN  IF Truthy(r.err)
           THEN Return(r.err) /\ UNCHANGED guest_name
           ELSE /\ guest_name' = r.guest_name
                /\ pc' = "guest"
                /\ ret' = ret
    /\ UNCHANGED <<conf, exists, trace, err, nuage_image_path, system_args, cmd_idx>>

\* Mutant: the guest is initialized without the kill() before it.
CreateGuest_NoKill ==
    /\ pc = "guest"
    /\ trace' = trace \o << Call("Guest", <<"qemu.guests", ToString(guest_name)>>, TRUE),
                            Call("initialize", <<nuage_image_path>>, TRUE) >>
    /\ pc' = "cp_metadata"
    /\ UNCHANGED <<conf, exists, err, nuage_image_path, guest_name, system_args,
                   cmd_idx, ret>>

\* Lines 94-96.
CreateGuest ==
    /\ pc = "guest"
    /\ trace' = trace \o << Call("Guest", <<"qemu.guests", ToString(guest_name)>>, TRUE),
                            Call("kill", <<>>, TRUE),
                            Call("initialize", <<nuage_image_path>>, TRUE) >>
    /\ pc' = "cp_metadata"
    /\ UNCHANGED <<conf, exists, err, nuage_image_path, guest_name, system_args,
                   cmd_idx, ret>>

\* Lines 99-100: the result of the copy is stored in err and not looked at.
CopyMetadata ==
    /\ pc = "cp_metadata"
    /\ \E e \in {0} \cup ErrCodes :
        /\ trace' = Append(trace, Call("run_local", <<"cp", MetadataPath, GuestMetadata>>, e = 0))
        /\ err' = e
    /\ pc' = "cp_userdata"
    /\ UNCHANGED <<conf, exists, nuage_image_path, guest_name, system_args, cmd_idx, ret>>

\* Lines 101-102: likewise.
CopyUserdata ==
    /\ pc = "cp_userdata"
    /\ \E e \in {0} \cup ErrCodes :
        /\ trace' = Append(trace, Call("run_local", <<"cp", UserdataPath, GuestUserdata>>, e = 0))
        /\ err' = e
    /\ pc' = "mkisofs"
    /\ UNCHANGED <<conf, exists, nuage_image_path, guest_name, system_args, cmd_idx, ret>>

\* Lines 107-119.
nuage_cmd ==
    <<"mkisofs", "-output", SeedImg, "-volid", "cidata", "-joliet", "-rock",
      GuestUserdata, GuestMetadata>>

\* Lines 106-123.
MakeSeed ==
    /\ pc = "mkisofs"
    /\ \E e \in {0} \cup ErrCodes :
        /\ trace' = Append(trace, Call("run_local", nuage_cmd, e = 0))
        /\ err' = e
        /\ IF Truthy(e)
           THEN Return(e)
           ELSE pc' = "resize" /\ ret' = ret
    /\ UNCHANGED <<conf, exists, nuage_image_path, guest_name, system_args, cmd_idx>>

QemuImgInfo == Call("run_local", <<"qemu-img", "info", BootImg>>, TRUE)

\* Mutant: the result of the resize is not looked at.
Resize_IgnoreErr ==
    /\ pc = "resize"
    /\ \E e \in {0} \cup ErrCodes :
        /\ err' = e
        /\ trace' = trace \o << QemuImgInfo,
                                Call("run_local", <<"qemu-img", "resize", BootImg, "12G">>, e = 0),
                                QemuImgInfo >>
        /\ system_args' = <<"-cdrom", SeedImg>>
        /\ pc' = "install"
        /\ ret' = ret
    /\ UNCHANGED <<conf, exists, nuage_image_path, guest_name, cmd_idx>>

\* Lines 127-139.  The two `qemu-img info` calls are made for their output
\* only; their results are dropped.
Resize ==
    /\ pc = "resize"
    /\ \E e \in {0} \cup ErrCodes :
        LET resize == Call("run_local", <<"qemu-img", "resize", BootImg, "12G">>, e = 0)
        IN  /\ err' = e
            /\ IF Truthy(e)
               THEN /\ trace' = trace \o <<QemuImgInfo, resize>>
                    /\ Return(e)
                    /\ UNCHANGED system_args
               ELSE /\ trace' = trace \o <<QemuImgInfo, resize, QemuImgInfo>>
                    /\ system_args' = <<"-cdrom", SeedImg>>
                    /\ pc' = "install"
                    /\ ret' = ret
    /\ UNCHANGED <<conf, exists, nuage_image_path, guest_name, cmd_idx>>

-----------------------------------------------------------------------------
(* install_cloudinit(cijoe, guest, system_args), lines 166-206.  What it    *)
(* returns is assigned to err at line 141; a truthy err is returned by      *)
(* cloudimage_from_nuageimage() (lines 142-144) and then by main().         *)

\* Lines 192-196.
cmds ==
    << "su -m root -c 'pkg install -y $(pkg search -q cloud-init | head -n1)'",
       "su -m root -c 'sysrc cloudinit_enable=YES'",
       "su -m root -c 'poweroff'" >>

\* Mutant: a missing transport is logged and the guest is started anyway.
CheckTransport_LogOnly ==
    /\ pc = "install"
    /\ pc' = "start1"
    /\ UNCHANGED <<conf, exists, trace, err, nuage_image_path, guest_name, system_args,
                   cmd_idx, ret>>

\* Lines 169-172.
CheckTransport ==
    /\ pc = "install"
    /\ IF ~ conf.transport
       THEN err' = 1 /\ Return(1)
       ELSE pc' = "start1" /\ UNCHANGED <<err, ret>>
    /\ UNCHANGED <<conf, exists, trace, nuage_image_path, guest_name, system_args, cmd_idx>>

\* Lines 174-177.
StartNuageInit ==
    /\ pc = "start1"
    /\ \E e \in {0} \cup ErrCodes :
        /\ trace' = Append(trace, Call("start",
                        <<"daemonize=False">> \o system_args \o <<"-no-reboot">>, e = 0))
        /\ IF Truthy(e)
           THEN err' = e /\ Return(e)
           ELSE pc' = "wait1" /\ UNCHANGED <<err, ret>>
    /\ UNCHANGED <<conf, exists, nuage_image_path, guest_name, system_args, cmd_idx>>

\* Mutant: the install boot is started although the guest did not halt.
WaitFirstHalt_IgnoreTimeout ==
    /\ pc = "wait1"
    /\ \E terminated \in BOOLEAN :
        /\ trace' = Append(trace, Call("wait_for_termination", <<"timeout=60">>, terminated))
        /\ pc' = "start2" /\ UNCHANGED <<err, ret>>
    /\ UNCHANGED <<conf, exists, nuage_image_path, guest_name, system_args, cmd_idx>>

\* Lines 179-181.
WaitFirstHalt ==
    /\ pc = "wait1"
    /\ \E terminated \in BOOLEAN :
        /\ trace' = Append(trace, Call("wait_for_termination", <<"timeout=60">>, terminated))
        /\ IF ~ terminated
           THEN err' = 1 /\ Return(1)
           ELSE pc' = "start2" /\ UNCHANGED <<err, ret>>
    /\ UNCHANGED <<conf, exists, nuage_image_path, guest_name, system_args, cmd_idx>>

\* Mutant: the install boot is started without the extra arguments.
StartInstall_NoArgs ==
    /\ pc = "start2"
    /\ \E e \in {0} \cup ErrCodes :
        /\ trace' = Append(trace, Call("start", <<>>, e = 0))
        /\ IF Truthy(e)
           THEN err' = e /\ Return(e)
           ELSE pc' = "is_up" /\ UNCHANGED <<err, ret>>
    /\ UNCHANGED <<conf, exists, nuage_image_path, guest_name, system_args, cmd_idx>>

\* Lines 183-186.
StartInstall ==
    /\ pc = "start2"
    /\ \E e \in {0} \cup ErrCodes :
        /\ trace' = Append(trace, Call("start", system_args, e = 0))
        /\ IF Truthy(e)
           THEN err' = e /\ Return(e)
           ELSE pc' = "is_up" /\ UNCHANGED <<err, ret>>
    /\ UNCHANGED <<conf, exists, nuage_image_path, guest_name, system_args, cmd_idx>>

\* Mutant: the script is run whether or not the guest is up.
WaitReady_IgnoreTimeout ==
    /\ pc = "is_up"
    /\ \E up \in BOOLEAN :
        /\ trace' = Append(trace, Call("is_up", <<"timeout=60">>, up))
        /\ pc' = "cmds" /\ cmd_idx' = 1 /\ UNCHANGED <<err, ret>>
    /\ UNCHANGED <<conf, exists, nuage_image_path, guest_name, system_args>>

\* Mutant: the guest is killed when it is not up in time.
WaitReady_KillOnTimeout ==
    /\ pc = "is_up"
    /\ \E up \in BOOLEAN :
        IF ~ up
        THEN /\ trace' = trace \o << Call("is_up", <<"timeout=60">>, up),
                                     Call("kill", <<>>, TRUE) >>
             /\ err' = 1 /\ Return(1) /\ UNCHANGED cmd_idx
        ELSE /\ trace' = Append(trace, Call("is_up", <<"timeout=60">>, up))
             /\ pc' = "cmds" /\ cmd_idx' = 1 /\ UNCHANGED <<err, ret>>
    /\ UNCHANGED <<conf, exists, nuage_image_path, guest_name, system_args>>

\* Lines 188-196.
WaitReady ==
    /\ pc = "is_up"
    /\ \E up \in BOOLEAN :
        /\ trace' = Append(trace, Call("is_up", <<"timeout=60">>, up))
        /\ IF ~ up
           THEN err' = 1 /\ Return(1) /\ UNCHANGED cmd_idx
           ELSE pc' = "cmds" /\ cmd_idx' = 1 /\ UNCHANGED <<err, ret>>
    /\ UNCHANGED <<conf, exists, nuage_image_path, guest_name, system_args>>

\* Mutant: the guest is not killed when a command failed.
OnCmdFailure_NoKill == << >>

\* Lines 199-202: the calls made when a command of the script failed.
OnCmdFailure == << Call("kill", <<>>, TRUE) >>

\* Mutant: a failed command is logged and the loop goes on.
RunCmd_ContinueOnError ==
    /\ pc = "cmds"
    /\ \E e \in {0} \cup ErrCodes :
        /\ trace' = Append(trace, Call("run", <<cmds[cmd_idx], "transport_name=default_freebsd">>, e = 0))
        /\ err' = e
        /\ ret' = ret
        /\ IF cmd_idx < Len(cmds)
           THEN cmd_idx' = cmd_idx + 1 /\ pc' = pc
           ELSE cmd_idx' = cmd_idx /\ pc' = "wait2"
    /\ UNCHANGED <<conf, exists, nuage_image_path, guest_name, system_args>>

\* Lines 197-202, one iteration of `for cmd in cmds`.
RunCmd ==
    /\ pc = "cmds"
    /\ \E e \in {0} \cup ErrCodes :
        LET run == Call("run", <<cmds[cmd_idx], "transport_name=default_freebsd">>, e = 0)
        IN  IF Truthy(e)
            THEN /\ trace' = Append(trace, run) \o OnCmdFailure
                 /\ err' = e
                 /\ Return(e)
                 /\ UNCHANGED cmd_idx
            ELSE /\ trace' = Append(trace, run)
                 /\ UNCHANGED <<err, ret>>
                 /\ IF cmd_idx < Len(cmds)
                    THEN cmd_idx' = cmd_idx + 1 /\ pc' = pc
                    ELSE cmd_idx' = cmd_idx /\ pc' = "wait2"
    /\ UNCHANGED <<conf, exists, nuage_image_path, guest_name, system_args>>

\* Mutant: a guest that did not terminate is taken for a terminated one.
WaitFinalHalt_IgnoreTimeout ==
    /\ pc = "wait2"
    /\ \E terminated \in BOOLEAN :
        /\ trace' = Append(trace, Call("wait_for_termination", <<"timeout=60">>, terminated))
        /\ err' = 0 /\ pc' = "copy" /\ ret' = ret
    /\ UNCHANGED <<conf, exists, nuage_image_path, guest_name, system_args, cmd_idx>>

\* Lines 204-206, and the implicit `return None` that line 141 stores in
\* err (None is falsy; it is written 0 here).
WaitFinalHalt ==
    /\ pc = "wait2"
    /\ \E terminated \in BOOLEAN :
        /\ trace' = Append(trace, Call("wait_for_termination", <<"timeout=60">>, terminated))
        /\ IF ~ terminated
           THEN err' = 1 /\ Return(1)
           ELSE err' = 0 /\ pc' = "copy" /\ ret' = ret
    /\ UNCHANGED <<conf, exists, nuage_image_path, guest_name, system_args, cmd_idx>>

-----------------------------------------------------------------------------
\* Lines 146-152.  Path(cloud.get("path")) raises TypeError without a path.
CopyToCloud ==
    /\ pc = "copy"
    /\ IF "path" \notin conf.image.cloud
       THEN Raise /\ UNCHANGED <<trace, err>>
       ELSE \E e \in {0} \cup ErrCodes :
            /\ trace' = Append(trace, Call("run_local", <<"cp", BootImg, CloudPath>>, e = 0))
            /\ err' = e
            /\ IF Truthy(e)
               THEN Return(e)
               ELSE pc' = "sha256sum" /\ ret' = ret
    /\ UNCHANGED <<conf, exists, nuage_image_path, guest_name, system_args, cmd_idx>>

\* Lines 154-163.  `ls` and `cat` are run for their output only.
Checksum ==
    /\ pc = "sha256sum"
    /\ \E e \in {0} \cup ErrCodes :
        LET sha == Call("run_local", <<"sha256sum", CloudPath, ">", "cloud.path.sha256">>, e = 0)
        IN  /\ err' = e
            /\ IF Truthy(e)
               THEN /\ trace' = Append(trace, sha)
                    /\ Return(e)
               ELSE /\ trace' = trace \o << sha,
                                   Call("run_local", <<"ls", "-la", CloudPath>>, TRUE),
                                   Call("run_local", <<"cat", "cloud.path.sha256">>, TRUE) >>
                    /\ Return(0)
    /\ UNCHANGED <<conf, exists, nuage_image_path, guest_name, system_args, cmd_idx>>

-----------------------------------------------------------------------------
(* Reading the trace *)

Calls(op) == {i \in DOMAIN trace : trace[i].op = op}
Starts == Calls("start")
Kills == Calls("kill")
InstallCmds == Calls("run")
Waits == Calls("wait_for_termination")
Failed(S) == {i \in S : ~ trace[i].ok}
Succeeded(S) == {i \in S : trace[i].ok}

RunLocal(tool) == {i \in Calls("run_local") : trace[i].arg[1] = tool}
Resizes == {i \in RunLocal("qemu-img") : trace[i].arg[2] = "resize"}
SeedBuilds == RunLocal("mkisofs")
FinalCopies == {i \in RunLocal("cp") : trace[i].arg[3] = CloudPath}
Checksums == RunLocal("sha256sum")

Returned == pc = "done"
Ended == pc \in {"done", "raised"}

-----------------------------------------------------------------------------
\* C1: when a command of the install script returns an error, guest.kill()
\* is called exactly once after the install-phase start, the failed command
\* is the last command issued over the transport, and main() has returned a
\* non-zero result.
C1_InstallFailureCleanup ==
    \A i \in Failed(InstallCmds) :
        /\ Cardinality({k \in Kills : \E s \in Starts : s < k}) = 1
        /\ \E k \in Kills : k > i
        /\ \A j \in InstallCmds : j <= i
        /\ Returned /\ ret # 0

C1_Witness ==
    /\ Returned
    /\ \E i \in Failed(InstallCmds) : trace[i].arg[1] = cmds[2]

\* C2: when is_up(timeout=60) reports false, main() has returned the
\* readiness-timeout result 1 and no command was issued over the transport.
C2_ReadinessTimeout ==
    \A i \in Failed(Calls("is_up")) :
        /\ Returned /\ ret = 1
        /\ InstallCmds = {}
        /\ i = Len(trace)

C2_Witness ==
    /\ Returned
    /\ Failed(Calls("is_up")) # {}
    /\ Cardinality(Succeeded(Starts)) = 2

\* The install sequence before position i of the trace succeeded in full.
InstallSucceededBefore(i) ==
    /\ Cardinality({s \in Succeeded(Starts) : s < i}) = 2
    /\ Cardinality({w \in Succeeded(Waits) : w < i}) = 2
    /\ \E u \in Succeeded(Calls("is_up")) : u < i
    /\ \A c \in 1..Len(cmds) :
         \E r \in Succeeded(InstallCmds) : r < i /\ trace[r].arg[1] = cmds[c]
    /\ \A j \in 1..(i - 1) :
         trace[j].op \in {"start", "wait_for_termination", "is_up", "run"} => trace[j].ok

\* C3: the copy to the destination and the checksum are issued only after
\* an install sequence that succeeded in full.
C3_FinalizeOnlyAfterInstall ==
    \A i \in FinalCopies \cup Checksums : InstallSucceededBefore(i)

C3_Witness ==
    /\ Returned /\ ret = 0
    /\ FinalCopies # {} /\ Checksums # {}

\* The last start of the guest that succeeded (0 if there is none).
LastStart ==
    IF Succeeded(Starts) = {} THEN 0
    ELSE CHOOSE s \in Succeeded(Starts) : \A t \in Succeeded(Starts) : t <= s

\* C4: when the run has ended after the guest was started, either the guest
\* was observed terminated after its last start or guest.kill() was called
\* after that start.
C4_GuestReleased ==
    (Ended /\ LastStart # 0) =>
        \/ \E w \in Succeeded(Waits) : w > LastStart
        \/ \E k \in Kills : k > LastStart

\* The first guest that declares the label of the image (0 if there is none).
FirstMatch ==
    LET matches == {i \in DOMAIN conf.guests :
                        conf.guests[i] # None /\ conf.guests[i] = conf.image.system_label}
    IN  IF matches = {} THEN 0 ELSE CHOOSE i \in matches : \A j \in matches : i <= j

Unlabeled == {i \in DOMAIN conf.guests : conf.guests[i] = None}

Selected == pc \notin {"config", "download", "decompress", "select", "raised"}
            /\ (Returned /\ Calls("Guest") = {} => (ret = EINVAL /\ Failed(DOMAIN trace) = {}
                                                     /\ conf.image.nuage # {} /\ conf.image.cloud # {}))

C6_FirstMatchSelected ==
    /\ guest_name # 0 =>
         /\ conf.guests[guest_name] = conf.image.system_label
         /\ \A j \in 1..(guest_name - 1) : conf.guests[j] # conf.image.system_label
    /\ \A g \in Calls("Guest") :
         guest_name # 0 /\ trace[g].arg = <<"qemu.guests", ToString(guest_name)>>

C6_Witness ==
    /\ Calls("Guest") # {}
    /\ guest_name = 1
    /\ \E j \in 2..Len(conf.guests) : conf.guests[j] = conf.image.system_label

\* The path existed when the run began: it exists and no call of the run
\* has created it.
ExistedAtStart(path) ==
    /\ path \in exists
    /\ path = NuagePath => Succeeded(Calls("download")) = {}
    /\ path = DecompressedPath => Succeeded(Calls("decompress_file")) = {}

\* The run is past lines 52-72.
Fetched ==
    /\ pc \notin {"config", "download", "decompress", "raised"}
    /\ conf.image.nuage # {} /\ conf.image.cloud # {}
    /\ Failed(Calls("download") \cup Calls("decompress_file")) = {}

\* C7 as stated: when the cache path existed at the start of the run, the
\* run calls neither download nor decompress_file.
C7_NoFetchWork ==
    ExistedAtStart(NuagePath) =>
        Calls("download") = {} /\ Calls("decompress_file") = {}

\* C7 as amended: when the cache path existed at the start of the run, the
\* run never calls download, and it calls decompress_file only when a
\* decompressed_path is configured that did not exist, and then once.
C7_NoDownload ==
    ExistedAtStart(NuagePath) =>
        /\ Calls("download") = {}
        /\ Calls("decompress_file") # {} =>
             /\ "decompressed_path" \in conf.image.nuage
             /\ ~ ExistedAtStart(DecompressedPath)
        /\ Fetched =>
             Cardinality(Calls("decompress_file")) =
                 IF "decompressed_path" \in conf.image.nuage
                    /\ ~ ExistedAtStart(DecompressedPath)
                 THEN 1 ELSE 0

C7_Witness ==
    /\ Fetched
    /\ ExistedAtStart(NuagePath)
    /\ Succeeded(Calls("decompress_file")) # {}

BootPhases == {"install", "start1", "wait1", "start2", "is_up", "cmds", "wait2",
               "copy", "sha256sum"}

\* C8: the boot disk is resized at most once; a run that reaches the boot
\* phases has resized it once, with success, before every guest.start.
C8_ResizeOnceBeforeBoot ==
    /\ Cardinality(Resizes) <= 1
    /\ (pc \in BootPhases \/ Starts # {}) =>
         /\ Cardinality(Succeeded(Resizes)) = 1
         /\ \A s \in Starts : \A r \in Resizes : r < s
    /\ \A r \in Resizes : trace[r].arg = <<"qemu-img", "resize", BootImg, "12G">>

C8_Witness ==
    /\ Cardinality(Starts) = 2
    /\ Resizes # {}

\* The argument that follows option opt in args.
OptionValues(args, opt) ==
    {args[k + 1] : k \in {j \in 1..(Len(args) - 1) : args[j] = opt}}

\* C9: the seed volume (volume id cidata) is built at most once; every
\* guest.start comes after its successful build and passes -cdrom with the
\* image that build wrote; the first start is the foreground -no-reboot
\* boot and the second is not.
C9_SeedOnceAndAttached ==
    /\ Cardinality(SeedBuilds) <= 1
    /\ \A b \in SeedBuilds : OptionValues(trace[b].arg, "-volid") = {"cidata"}
    /\ \A s \in Starts :
         \E b \in Succeeded(SeedBuilds) :
            /\ b < s
            /\ OptionValues(trace[s].arg, "-cdrom") = OptionValues(trace[b].arg, "-output")
            /\ OptionValues(trace[s].arg, "-cdrom") = {SeedImg}
    /\ Cardinality(Starts) <= 2
    /\ \A s \in Starts :
         (\A t \in Starts : s <= t) <=>
            (\E k \in DOMAIN trace[s].arg : trace[s].arg[k] = "-no-reboot")
    /\ \A s \in Starts :
         (\A t \in Starts : s <= t) <=> trace[s].arg[1] = "daemonize=False"

C9_Witness ==
    /\ Cardinality(Starts) = 2
    /\ SeedBuilds # {}

\* The operations of the stages that report success or failure.
StageOps ==
    Calls("download") \cup Calls("decompress_file") \cup RunLocal("cp")
        \cup SeedBuilds \cup Resizes \cup Starts \cup Waits \cup Calls("is_up")
        \cup InstallCmds \cup Checksums

\* C10: once an operation of a stage has failed, main() has returned a
\* non-zero result and nothing was done after the failure in a later step
\* (the kill that follows a failed install command belongs to its step).
C10_ShortCircuit ==
    \A i \in Failed(StageOps) :
        /\ Returned /\ ret # 0
        /\ \A j \in (i + 1)..Len(trace) : trace[j].op = "kill" /\ trace[i].op = "run"

\* The calls that need a guest or prepare its boot.
GuestWork ==
    Calls("Guest") \cup Kills \cup Calls("initialize") \cup Starts
        \cup SeedBuilds \cup Resizes

\* C11 as stated: when no guest declares the label of the image, the
\* selection ends the run with EINVAL and nothing is done with a guest;
\* otherwise one Guest is created.
C11_OneGuestOrEinval ==
    /\ [](FirstMatch = 0 => GuestWork = {})
    /\ [](Cardinality(Calls("Guest")) <= 1)
    /\ [][pc = "select" =>
            IF FirstMatch = 0
            THEN pc' = "done" /\ ret' = EINVAL
            ELSE pc' = "guest" /\ guest_name' = FirstMatch]_vars
    /\ [][pc = "guest" => Cardinality(Calls("Guest"))' = 1]_vars

\* C11 as amended: the same, except that a guest without a label that comes
\* before the first guest declaring the label of the image also ends the
\* run with EINVAL, with nothing done with a guest.
C11_OneGuestOrEinvalLazy ==
    /\ [](FirstMatch = 0 => GuestWork = {})
    /\ []((\E u \in Unlabeled : u < FirstMatch) => GuestWork = {})
    /\ [](Cardinality(Calls("Guest")) <= 1)
    /\ [][pc = "select" =>
            IF FirstMatch = 0 \/ \E u \in Unlabeled : u < FirstMatch
            THEN pc' = "done" /\ ret' = EINVAL
            ELSE pc' = "guest" /\ guest_name' = FirstMatch]_vars
    /\ [][pc = "guest" => Cardinality(Calls("Guest"))' = 1]_vars

C11_Witness ==
    /\ Selected /\ Returned /\ ret = EINVAL
    /\ conf.guests # <<>> /\ Unlabeled = {} /\ FirstMatch = 0
    /\ conf.image.system_label # None

\* A required path is missing from a non-empty entry of the image.
SourcePathMissing == conf.image.nuage # {} /\ "path" \notin conf.image.nuage
DestinationPathMissing == conf.image.cloud # {} /\ "path" \notin conf.image.cloud

\* C12: with a nuage entry without path, or a non-empty cloud entry without
\* path, the run does not end in an exception, it returns EINVAL unless a
\* call failed first, and a missing destination path is found before any
\* guest.start.
C12_MissingPathIsEinval ==
    (SourcePathMissing \/ DestinationPathMissing) =>
        /\ pc # "raised"
        /\ (Returned /\ Failed(DOMAIN trace) = {}) => ret = EINVAL
        /\ DestinationPathMissing => Starts = {}

\* A decompressed_path is configured and existed when the run began.
DecompressedAtStart ==
    /\ "decompressed_path" \in conf.image.nuage
    /\ ExistedAtStart(DecompressedPath)

\* C13 as stated: with a configured decompressed_path that existed at the
\* start of the run, the run calls neither download nor decompress_file.
C13_NoWorkWhenDecompressed ==
    DecompressedAtStart =>
        Calls("download") = {} /\ Calls("decompress_file") = {}

\* C13 as amended: with a configured decompressed_path that existed at the
\* start of the run, the run never calls decompress_file; it calls download
\* once when the cache path did not exist, and not at all when it did.
C13_NoDecompressWhenDecompressed ==
    DecompressedAtStart =>
        /\ Calls("decompress_file") = {}
        /\ Calls("download") # {} => ~ ExistedAtStart(NuagePath)
        /\ Cardinality(Calls("download")) <= 1
        /\ (pc \notin {"config", "download", "raised"} /\ conf.image.nuage # {}
               /\ conf.image.cloud # {})
             => (Calls("download") = {} <=> ExistedAtStart(NuagePath))

C13_Witness ==
    /\ Fetched
    /\ DecompressedAtStart
    /\ Succeeded(Calls("download")) # {}

\* C14: the guest is initialized from the decompressed path when a
\* decompressed_path is configured, and from the cache path otherwise.
C14_InitializedFromRightImage ==
    \A i \in Calls("initialize") :
        trace[i].arg = << IF "decompressed_path" \in conf.image.nuage
                          THEN DecompressedPath ELSE NuagePath >>

C14_Witness ==
    /\ Calls("initialize") # {}
    /\ DecompressedAtStart

\* The k-th command issued over the transport is at this position of the
\* trace.
NthInstallCmd(k) ==
    CHOOSE i \in InstallCmds : Cardinality({j \in InstallCmds : j <= i}) = k

\* C15: the commands issued over the transport are, in order, the first
\* commands of the script, each issued once and only after every earlier
\* one succeeded; a run that reaches the final wait, or returns 0, has
\* issued all three with success.
C15_ScriptInOrder ==
    /\ Cardinality(InstallCmds) <= Len(cmds)
    /\ \A k \in 1..Cardinality(InstallCmds) :
         /\ trace[NthInstallCmd(k)].arg[1] = cmds[k]
         /\ k < Cardinality(InstallCmds) => trace[NthInstallCmd(k)].ok
    /\ pc = "cmds" => cmd_idx = Cardinality(InstallCmds) + 1
    /\ (\/ pc \in {"wait2", "copy", "sha256sum"}
        \/ \E w \in Waits : \E r \in InstallCmds : r < w
        \/ Returned /\ ret = 0)
         => Cardinality(Succeeded(InstallCmds)) = Len(cmds)

C15_Witness ==
    /\ Cardinality(Succeeded(InstallCmds)) = Len(cmds)
    /\ Returned /\ ret = 0

\* C16: the second guest.start comes after a successful first start and a
\* wait_for_termination that returned true; when that wait times out, the
\* run has returned a non-zero result with no second start, no is_up and no
\* command.
C16_SecondStartAfterFirstHalt ==
    /\ Cardinality(Starts) = 2 =>
         \E s1, s2 \in Starts : \E w \in Succeeded(Waits) :
            s1 < w /\ w < s2 /\ trace[s1].ok
    /\ \A w \in Failed(Waits) :
         Cardinality({s \in Starts : s < w}) = 1 =>
            /\ Returned /\ ret # 0
            /\ Cardinality(Starts) = 1
            /\ Calls("is_up") = {} /\ InstallCmds = {}

C16_Witness ==
    /\ Returned
    /\ Cardinality(Starts) = 1
    /\ Failed(Waits) # {}

\* The kill() calls made after the guest was initialized.
KillsAfterInitialize == {k \in Kills : \E i \in Calls("initialize") : i < k}

\* C17: after the initial force-stop, guest.kill() has been called exactly
\* when a command of the install script failed, and then once, right after
\* the failed command.
C17_KillOnlyOnCmdFailure ==
    /\ KillsAfterInitialize # {} <=> Failed(InstallCmds) # {}
    /\ Cardinality(KillsAfterInitialize) <= 1
    /\ \A k \in KillsAfterInitialize : (k - 1) \in Failed(InstallCmds)

C17_Witness ==
    /\ Returned
    /\ Failed(Waits \cup Calls("is_up") \cup Starts) # {}
    /\ KillsAfterInitialize = {}

\* C18: a run that resolved a guest calls Guest(), kill() and initialize()
\* in this order, kill() once before initialize(), and every copy of a
\* payload, the seed build, the resize and every start come after them.
C18_KillThenInitializeFirst ==
    /\ (guest_name # 0 /\ pc # "guest") <=> Calls("Guest") # {}
    /\ \A g \in Calls("Guest") :
         /\ Calls("Guest") = {g}
         /\ {k \in Kills : k < g + 2} = {g + 1}
         /\ Calls("initialize") = {g + 2}
         /\ \A j \in Calls("run_local") \cup Starts : j > g + 2
    /\ Calls("Guest") = {} =>
         Kills \cup Calls("initialize") \cup Calls("run_local") \cup Starts = {}

C18_Witness ==
    /\ Calls("initialize") # {}
    /\ Succeeded(Starts) # {}

\* C19: with an image without system_label, the selection ends the run
\* with EINVAL whatever qemu.guests holds, and no Guest is created, killed,
\* initialized or started at any point of the run.
C19_NoLabelNeverSelects ==
    /\ [](conf.image.system_label = None =>
            /\ guest_name = 0
            /\ Calls("Guest") \cup Kills \cup Calls("initialize") \cup Starts = {})
    /\ [][(pc = "select" /\ conf.image.system_label = None) =>
            (pc' = "done" /\ ret' = EINVAL /\ trace' = trace)]_vars

C19_Witness ==
    /\ Selected /\ Returned /\ ret = EINVAL
    /\ conf.image.system_label = None
    /\ Unlabeled # {} /\ Unlabeled # DOMAIN conf.guests

\* C20: without the transport cijoe.transport.default_freebsd, a run that
\* reaches install_cloudinit returns a non-zero result there, after a
\* successful seed build and resize, and the run never starts the guest,
\* waits for it, issues a command or finalizes.
C20_NoTransportNoBoot ==
    /\ [](~ conf.transport =>
            /\ Starts \cup Waits \cup Calls("is_up") \cup InstallCmds = {}
            /\ FinalCopies \cup Checksums = {}
            /\ pc \notin BootPhases \ {"install"})
    /\ [][(pc = "install" /\ ~ conf.transport) =>
            /\ pc' = "done" /\ ret' # 0 /\ trace' = trace
            /\ Cardinality(Succeeded(SeedBuilds)) = 1
            /\ Cardinality(Succeeded(Resizes)) = 1]_vars

C20_Witness ==
    /\ Returned /\ ret = 1
    /\ ~ conf.transport
    /\ Succeeded(Resizes) # {} /\ Succeeded(SeedBuilds) # {}

Next ==
    \/ ReadConfig
    \/ Download
    \/ Decompress
    \/ SelectGuest
    \/ CreateGuest
    \/ CopyMetadata
    \/ CopyUserdata
    \/ MakeSeed
    \/ Resize
    \/ CheckTransport
    \/ StartNuageInit
    \/ WaitFirstHalt
    \/ StartInstall
    \/ WaitReady
    \/ RunCmd
    \/ WaitFinalHalt
    \/ CopyToCloud
    \/ Checksum

Spec == Init /\ [][Next]_vars
=============================================================================
